---- MODULE Spec2Model ----
(***************************************************************************)
(* A model of the project bootstrapper (src/main.rs): main creates the     *)
(* project directories, changes into the project, runs five external       *)
(* commands through run_apps and writes the template files.                *)
(*                                                                         *)
(* A path or a command argument is a sequence of components: "a/b" is      *)
(* <<"a", "b">>, an absolute path starts with the component "/", and "."   *)
(* is the component that names the directory itself.                       *)
(***************************************************************************)
EXTENDS Integers, Sequences, FiniteSets, TLC

VARIABLES
    pc,            \* position of the process
    project_path,  \* Cli.project_path
    d,             \* next entry of the directory array of main
    cwd,           \* the process's current working directory
    dirs,          \* directories that exist on disk
    files,         \* files written on disk
    cmds,          \* the list run_apps was given
    i,             \* position of run_apps's for loop (1-based)
    inflight,      \* index of the child process being waited for, 0 if none
    hung,          \* the child in flight never exits
    started,       \* the indices of the commands spawned, in order
    exits,         \* the exit statuses of the commands that exited, in order
    f,             \* next entry of the file array being written
    ret,           \* what run_apps returned: "none", "Ok" or "Err"
    exitCode,      \* the process's exit code, -1 while it runs
    abortAt,       \* where the process panicked
    rule,          \* the PatchRule being applied
    present,       \* the file to patch exists
    content,       \* the contents of the file to patch
    outcome,       \* how the last patch ended: "none" before the first
    patches        \* the number of times the rule was applied

\* The state of the bootstrapper, and the state of the patcher.
mvars == <<pc, project_path, d, cwd, dirs, files, cmds, i, inflight, hung,
           started, exits, f, ret, exitCode, abortAt>>

pvars == <<rule, present, content, outcome, patches>>

vars == <<mvars, pvars>>

----------------------------------------------------------------------------
(* Paths *)

RootDir == <<"/">>
StartDir == <<"/", "home">>

IsAbsolute(p) == p # <<>> /\ p[1] = "/"

NotDot(c) == c # "."

\* What the operating system makes of path p in working directory w.
Resolve(w, p) == SelectSeq(IF IsAbsolute(p) THEN p ELSE w \o p, NotDot)

Parent(p) == IF Len(p) <= 1 THEN RootDir ELSE SubSeq(p, 1, Len(p) - 1)

Ancestors(p) == { SubSeq(p, 1, k) : k \in 1..Len(p) }

\* The project paths tried: relative, nested relative, absolute.
ProjectPaths == { <<"app">>, <<"work", "site">>, <<"/", "srv", "app">> }

\* [public_path, images_path, src_path] of main.
DirPaths(p) == << p \o <<"public">>, p \o <<"public", "images">>, p \o <<"src">> >>

----------------------------------------------------------------------------
(* The command list of main *)

Cmd(c, a) == [cmd |-> c, args |-> a]

git_init == Cmd("git", << <<"init">> >>)
npm_init == Cmd("npm", << <<"init">>, <<"-y">> >>)
npm_install == Cmd("npm", << <<"install">>, <<"react">>, <<"react-dom">> >>)
npm_install_dev == Cmd("npm", << <<"install">>, <<"--save-dev">>, <<"@types", "jest">> >>)
update_package_json == Cmd("node", << <<"-e">>, <<"package_json_update">> >>)

\* The list with the two npm install commands the other way round.
appsReordered == << git_init, npm_init, npm_install, npm_install_dev, update_package_json >>

apps == << git_init, npm_init, npm_install_dev, npm_install, update_package_json >>

\* The text files of main, in the order they are written.
TextFiles == << <<".gitignore">>, <<"prettier.config.js">>, <<".eslintrc.json">>,
                <<".editorconfig">>, <<"jsconfig.json">>, <<"index.html">>,
                <<"vite.config.js">>, <<"src", "project.jsx">>, <<"src", "app.jsx">>,
                <<"postcss.config.js">>, <<"src", "index.css">>,
                <<"tailwind.config.js">> >>

\* The binary files of main written by the loop, and the path each is written to.
BinaryFiles == << "android-chrome-192x192.png", "android-chrome-512x512.png",
                  "apple-touch-icon.png", "favicon-16x16.png", "favicon-32x32.png",
                  "favicon.ico", "site.webmanifest" >>

BinaryPath(name) == <<".", "public", name>>

RedBoxPath == <<".", "public", "images", "red-box-48.png">>

----------------------------------------------------------------------------
(* Exit statuses and panics *)

\* ExitStatus: 0 is success, 1 and 2 are failures with a code, -1 is a child
\* killed by a signal (status.code() is None).
ExitStatuses == {0, 1, 2, -1}

\* A runner that does not look at the exit status.
SuccessAlways(status) == TRUE

Success(status) == status = 0

\* The exit code of a Rust process whose main thread panicked.
PanicExitCode == 101

NoAbort == [phase |-> "none", idx |-> 0]

\* An abort through std::process::exit(1) instead of a panic.
PanicExitOne(phase, idx) ==
    /\ pc' = "panicked"
    /\ exitCode' = 1
    /\ abortAt' = [phase |-> phase, idx |-> idx]

\* panic!, expect and an index out of bounds: the process ends where it is.
Panic(phase, idx) ==
    /\ pc' = "panicked"
    /\ exitCode' = PanicExitCode
    /\ abortAt' = [phase |-> phase, idx |-> idx]

----------------------------------------------------------------------------
(* What a child process leaves on disk *)

OptionArgs == { <<"-p">>, <<"-l">>, <<"-y">>, <<"-e">>, <<"--save-dev">> }

\* The operands of an argument list: the arguments that are not options.
Operands(args) == { args[k] : k \in { n \in 1..Len(args) : args[n] \notin OptionArgs } }

\* The directories that exist once command c has exited with success in
\* working directory w: a successful mkdir leaves each operand (and so its
\* ancestors) on disk.
ChildDirs(c, w) ==
    IF c.cmd = "mkdir"
    THEN UNION { Ancestors(Resolve(w, a)) : a \in Operands(c.args) }
    ELSE {}

----------------------------------------------------------------------------
(* The config-file patcher.  A text is a sequence of characters. *)

Alphabet == {"k", ":", " ", "[", "]", "e", "m"}

MaxLen == 5

\* The file contents tried: every text over Alphabet of at most MaxLen characters.
Texts == UNION { [1..n -> Alphabet] : n \in 0..MaxLen }

Rule(imp, key, inj) ==
    [importStatement |-> imp, arrayKeyName |-> key, injectedExpression |-> inj]

\* The rules tried: import 'm' / k / x, import 'me' / k / e (an expression
\* the file may hold already), and a rule that lacks its import statement.
Rules ==
    { Rule(<<"i", "'", "m", "'">>, <<"k">>, <<"x">>),
      Rule(<<"'", "m", "e", "'">>, <<"k">>, <<"e">>),
      Rule(<<>>, <<"k">>, <<"x">>) }

IsSpace(ch) == ch \in {" ", "\n"}

Least(S) == CHOOSE x \in S : \A y \in S : x <= y

Greatest(S) == CHOOSE x \in S : \A y \in S : x >= y

\* t occurs in s.
Contains(s, t) == \E p \in 1..(Len(s) - Len(t) + 1) : SubSeq(s, p, p + Len(t) - 1) = t

\* s without its leading and trailing whitespace.
Trim(s) ==
    LET ns == { n \in 1..Len(s) : ~IsSpace(s[n]) }
    IN  IF ns = {} THEN <<>> ELSE SubSeq(s, Least(ns), Greatest(ns))

\* The distinguishing marker of an import statement: the module path
\* between its quotes (the whole statement when it quotes nothing).
Marker(imp) ==
    LET qs == { n \in 1..Len(imp) : imp[n] = "'" }
    IN  IF Cardinality(qs) < 2
        THEN imp
        ELSE SubSeq(imp, Least(qs) + 1, Least(qs \ {Least(qs)}) - 1)

\* A patcher without the check of step 1.
AlreadyPatchedNever(c, r) == FALSE

\* Step 1: the content holds the marker already.
AlreadyPatched(c, r) == Contains(c, Marker(r.importStatement))

\* Step 2: the import statement and a newline, then the content.
WithImport(c, r) == r.importStatement \o <<"\n">> \o c

NoMatch == [start |-> 0, open |-> 0, close |-> 0]

\* Where the "[" of `key:\s*[` is when that pattern starts at p, or 0.
HeadAt(s, key, p) ==
    LET colon == p + Len(key)
    IN  IF colon > Len(s) \/ SubSeq(s, p, colon - 1) # key \/ s[colon] # ":"
        THEN 0
        ELSE LET ns == { h \in (colon + 1)..Len(s) : ~IsSpace(s[h]) }
             IN  IF ns = {} THEN 0
                 ELSE IF s[Least(ns)] = "[" THEN Least(ns) ELSE 0

\* The next "]" after position h, or 0: the shortest run of characters.
CloseAfter(s, h) ==
    LET cs == { q \in (h + 1)..Len(s) : s[q] = "]" }
    IN  IF cs = {} THEN 0 ELSE Least(cs)

MatchAt(s, key, p) ==
    LET h == HeadAt(s, key, p)
    IN  IF h = 0 \/ CloseAfter(s, h) = 0
        THEN NoMatch
        ELSE [start |-> p, open |-> h, close |-> CloseAfter(s, h)]

\* Step 3: the first occurrence of `key:\s*[...]` in s.
FirstMatch(s, key) ==
    LET ps == { p \in 1..Len(s) : MatchAt(s, key, p) # NoMatch }
    IN  IF ps = {} THEN NoMatch ELSE MatchAt(s, key, Least(ps))

\* A body with the injected expression after the inner text.
NewBodyAppended(inj, inner) ==
    (IF inner = <<>> THEN <<>> ELSE inner \o <<",", "\n">>) \o inj \o <<"\n", " ", " ">>

\* Step 4: the injected expression first, then the inner text there was, if
\* any, after a comma and a newline; the "]" that closes goes on its own line.
NewBody(inj, inner) ==
    inj \o (IF inner = <<>> THEN <<>> ELSE <<",", "\n">> \o inner) \o <<"\n", " ", " ">>

Rewrite(s, m, r) ==
    SubSeq(s, 1, m.open)
      \o NewBody(r.injectedExpression, Trim(SubSeq(s, m.open + 1, m.close - 1)))
      \o SubSeq(s, m.close, Len(s))

Result(status, out) == [status |-> status, out |-> out]

MalformedRule(r) ==
    r.importStatement = <<>> \/ r.arrayKeyName = <<>> \/ r.injectedExpression = <<>>

\* A replacement that finds nothing and returns the text it was given.
OnNoMatchSilent(s) == Result("Ok", s)

\* The target array literal is not in the text.
OnNoMatch(s) == Result("NoMatchFound", <<>>)

\* patch(existingContents, rule)
Patch(c, r) ==
    IF MalformedRule(r) THEN Result("MalformedRule", <<>>)
    ELSE IF AlreadyPatched(c, r) THEN Result("Ok", c)
    ELSE LET s == WithImport(c, r)
             m == FirstMatch(s, r.arrayKeyName)
         IN  IF m = NoMatch THEN OnNoMatch(s) ELSE Result("Ok", Rewrite(s, m, r))

\* An absent file is patched as the empty text.
Existing == IF present THEN content ELSE <<>>

\* The patcher is not part of the bootstrapper's run.
PatchIdle ==
    /\ rule = Rule(<<>>, <<>>, <<>>)
    /\ present = FALSE
    /\ content = <<>>
    /\ outcome = "none"
    /\ patches = 0

----------------------------------------------------------------------------
(* main, up to the call of run_apps *)

Init ==
    /\ pc = "create_directory"
    /\ project_path \in ProjectPaths
    /\ d = 1
    /\ cwd = StartDir
    /\ dirs = Ancestors(StartDir)
    /\ files = {}
    /\ cmds = <<>>
    /\ i = 1
    /\ inflight = 0
    /\ hung = FALSE
    /\ started = <<>>
    /\ exits = <<>>
    /\ f = 1
    /\ ret = "none"
    /\ exitCode = -1
    /\ abortAt = NoAbort
    /\ PatchIdle

\* create_directory(path) for the next path of the array: fs::create_dir_all
\* creates the directory and its missing parents, or the process panics.
CreateDirectory ==
    /\ pc = "create_directory"
    /\ \E ok \in BOOLEAN :
         IF ok
         THEN /\ dirs' = dirs \cup Ancestors(Resolve(cwd, DirPaths(project_path)[d]))
              /\ d' = d + 1
              /\ pc' = IF d = Len(DirPaths(project_path)) THEN "set_current_dir" ELSE pc
              /\ UNCHANGED <<exitCode, abortAt>>
         ELSE /\ Panic("create_directory", d)
              /\ UNCHANGED <<dirs, d>>
    /\ UNCHANGED <<project_path, cwd, files, cmds, i, inflight, hung, started,
                   exits, f, ret>>
    /\ UNCHANGED pvars

\* env::set_current_dir(&project_path), which can succeed only when the
\* directory exists; then main builds the command list and calls run_apps.
SetProjectDir ==
    /\ pc = "set_current_dir"
    /\ \E ok \in BOOLEAN :
         /\ ok => Resolve(cwd, project_path) \in dirs
         /\ IF ok
            THEN /\ cwd' = Resolve(cwd, project_path)
                 /\ cmds' = apps
                 /\ i' = 1
                 /\ pc' = "run_apps"
                 /\ UNCHANGED <<exitCode, abortAt>>
            ELSE /\ Panic("set_current_dir", 0)
                 /\ UNCHANGED <<cwd, cmds, i>>
    /\ UNCHANGED <<project_path, d, dirs, files, inflight, hung, started,
                   exits, f, ret>>
    /\ UNCHANGED pvars

----------------------------------------------------------------------------
(* run_apps *)

\* The head of a loop iteration, up to where command.output() blocks: the
\* child is spawned (and may be one that never exits), or spawning fails
\* and expect panics.
RunAppsSpawn ==
    /\ pc = "run_apps"
    /\ inflight = 0
    /\ i <= Len(cmds)
    /\ \E spawned \in BOOLEAN :
         IF spawned
         THEN /\ inflight' = i
              /\ started' = Append(started, i)
              /\ hung' \in BOOLEAN
              /\ UNCHANGED <<pc, exitCode, abortAt>>
         ELSE /\ Panic("spawn", i)
              /\ UNCHANGED <<inflight, started, hung>>
    /\ UNCHANGED <<project_path, d, cwd, dirs, files, cmds, i, exits, f, ret>>
    /\ UNCHANGED pvars

\* A wait that gives up on its own: it returns for any child in flight.
WaitReturnsTimeout == inflight # 0

\* command.output() blocks until the child exits: it returns for a child in
\* flight that is not hung.
WaitReturns == inflight # 0 /\ ~hung

\* &args[0], the directory run_apps changes into after mkdir; indexing an
\* empty argument list panics.
HasChdirTarget(args) == Len(args) >= 1

\* A runner that changes into the last argument of mkdir.
ChdirTargetLast(args) == args[Len(args)]

ChdirTarget(args) == args[1]

\* command.output() returns with the child's exit status, and the rest of
\* the iteration runs: a failure panics; after a successful mkdir the working
\* directory becomes args[0], or the process panics.
\* (chdir is whether set_current_dir succeeds; it is TRUE on the paths that
\* do not call it.)
RunAppsWait ==
    /\ pc = "run_apps"
    /\ WaitReturns
    /\ inflight' = 0
    /\ \E status \in ExitStatuses, chdir \in BOOLEAN :
         /\ exits' = Append(exits, status)
         /\ LET c == cmds[i]
                made == dirs \cup ChildDirs(c, cwd)
            IN
             IF ~Success(status)
             THEN /\ chdir
                  /\ Panic("exit", i)
                  /\ UNCHANGED <<cwd, dirs, i>>
             ELSE /\ dirs' = made
                  /\ IF c.cmd = "mkdir"
                     THEN IF ~HasChdirTarget(c.args)
                          THEN /\ chdir
                               /\ Panic("index", i)
                               /\ UNCHANGED <<cwd, i>>
                          ELSE /\ chdir => Resolve(cwd, ChdirTarget(c.args)) \in made
                               /\ IF chdir
                                  THEN /\ cwd' = Resolve(cwd, ChdirTarget(c.args))
                                       /\ i' = i + 1
                                       /\ UNCHANGED <<pc, exitCode, abortAt>>
                                  ELSE /\ Panic("chdir", i)
                                       /\ UNCHANGED <<cwd, i>>
                     ELSE /\ chdir
                          /\ i' = i + 1
                          /\ UNCHANGED <<pc, cwd, exitCode, abortAt>>
    /\ UNCHANGED <<project_path, d, files, cmds, hung, started, f, ret>>
    /\ UNCHANGED pvars

\* The loop is over: run_apps returns Ok(()) to its caller, which goes on
\* at `to` (in main, expect unwraps the Ok).
RunAppsReturn(to) ==
    /\ pc = "run_apps"
    /\ inflight = 0
    /\ i > Len(cmds)
    /\ ret' = "Ok"
    /\ pc' = to
    /\ f' = 1
    /\ UNCHANGED <<project_path, d, cwd, dirs, files, cmds, i, inflight, hung,
                   started, exits, exitCode, abortAt>>
    /\ UNCHANGED pvars

----------------------------------------------------------------------------
(* main, after run_apps *)

\* fs::write succeeds only into a directory that exists.
CanWrite(path) == Parent(Resolve(cwd, path)) \in dirs

\* One round of the for_each over the text files.
WriteTextFile ==
    /\ pc = "write_text"
    /\ \E ok \in BOOLEAN :
         /\ ok => CanWrite(TextFiles[f])
         /\ IF ok
            THEN /\ files' = files \cup {Resolve(cwd, TextFiles[f])}
                 /\ IF f = Len(TextFiles)
                    THEN pc' = "write_binary" /\ f' = 1
                    ELSE pc' = pc /\ f' = f + 1
                 /\ UNCHANGED <<exitCode, abortAt>>
            ELSE /\ Panic("write_text", f)
                 /\ UNCHANGED <<files, f>>
    /\ UNCHANGED <<project_path, d, cwd, dirs, cmds, i, inflight, hung, started,
                   exits, ret>>
    /\ UNCHANGED pvars

\* A write loop that removes the files written so far when a write fails.
WriteBinaryFileRollback ==
    /\ pc = "write_binary"
    /\ \E ok \in BOOLEAN :
         /\ ok => CanWrite(BinaryPath(BinaryFiles[f]))
         /\ IF ok
            THEN /\ files' = files \cup {Resolve(cwd, BinaryPath(BinaryFiles[f]))}
                 /\ IF f = Len(BinaryFiles)
                    THEN pc' = "write_red_box" /\ f' = 1
                    ELSE pc' = pc /\ f' = f + 1
                 /\ UNCHANGED <<exitCode, abortAt>>
            ELSE /\ Panic("write_binary", f)
                 /\ files' = {}
                 /\ UNCHANGED f
    /\ UNCHANGED <<project_path, d, cwd, dirs, cmds, i, inflight, hung, started,
                   exits, ret, pvars>>

\* One round of the for_each over the binary files.
WriteBinaryFile ==
    /\ pc = "write_binary"
    /\ \E ok \in BOOLEAN :
         /\ ok => CanWrite(BinaryPath(BinaryFiles[f]))
         /\ IF ok
            THEN /\ files' = files \cup {Resolve(cwd, BinaryPath(BinaryFiles[f]))}
                 /\ IF f = Len(BinaryFiles)
                    THEN pc' = "write_red_box" /\ f' = 1
                    ELSE pc' = pc /\ f' = f + 1
                 /\ UNCHANGED <<exitCode, abortAt>>
            ELSE /\ Panic("write_binary", f)
                 /\ UNCHANGED <<files, f>>
    /\ UNCHANGED <<project_path, d, cwd, dirs, cmds, i, inflight, hung, started,
                   exits, ret>>
    /\ UNCHANGED pvars

\* The last write, then "Done!" and main returns.
WriteRedBox ==
    /\ pc = "write_red_box"
    /\ \E ok \in BOOLEAN :
         /\ ok => CanWrite(RedBoxPath)
         /\ IF ok
            THEN /\ files' = files \cup {Resolve(cwd, RedBoxPath)}
                 /\ pc' = "done"
                 /\ exitCode' = 0
                 /\ UNCHANGED abortAt
            ELSE /\ Panic("write_red_box", 0)
                 /\ UNCHANGED files
    /\ UNCHANGED <<project_path, d, cwd, dirs, cmds, i, inflight, hung, started,
                   exits, f, ret>>
    /\ UNCHANGED pvars

Next ==
    \/ CreateDirectory
    \/ SetProjectDir
    \/ RunAppsSpawn
    \/ RunAppsWait
    \/ RunAppsReturn("write_text")
    \/ WriteTextFile
    \/ WriteBinaryFile
    \/ WriteRedBox

Spec == Init /\ [][Next]_vars

\* The process takes its next step whenever it has one, and a child that is
\* not hung exits.
LiveSpec == Init /\ [][Next]_vars /\ WF_vars(Next)

----------------------------------------------------------------------------
(* run_apps on its own, called with any list of commands *)

MaxCmds == 3

CmdPool ==
    { Cmd("ls", << <<"-l">> >>),
      Cmd("mkdir", << <<"new_directory">> >>),
      Cmd("mkdir", << <<"-p">>, <<"a", "b">> >>),
      Cmd("mkdir", <<>>) }

CmdLists == UNION { [1..n -> CmdPool] : n \in 0..MaxCmds }

RunnerInit ==
    /\ pc = "run_apps"
    /\ project_path = <<"app">>
    /\ d = 1
    /\ cwd = StartDir
    /\ dirs = Ancestors(StartDir)
    /\ files = {}
    /\ cmds \in CmdLists
    /\ i = 1
    /\ inflight = 0
    /\ hung = FALSE
    /\ started = <<>>
    /\ exits = <<>>
    /\ f = 1
    /\ ret = "none"
    /\ exitCode = -1
    /\ abortAt = NoAbort
    /\ PatchIdle

RunnerNext ==
    \/ RunAppsSpawn
    \/ RunAppsWait
    \/ RunAppsReturn("returned")

RunnerSpec == RunnerInit /\ [][RunnerNext]_vars

----------------------------------------------------------------------------
(* The patcher on its own: a caller reads the file, patches and writes back *)

MaxPatches == 2

PatchInit ==
    /\ pc = "patching"
    /\ project_path = <<"app">>
    /\ d = 1
    /\ cwd = StartDir
    /\ dirs = Ancestors(StartDir)
    /\ files = {}
    /\ cmds = <<>>
    /\ i = 1
    /\ inflight = 0
    /\ hung = FALSE
    /\ started = <<>>
    /\ exits = <<>>
    /\ f = 1
    /\ ret = "none"
    /\ exitCode = -1
    /\ abortAt = NoAbort
    /\ rule \in Rules
    /\ present \in BOOLEAN
    /\ content \in IF present THEN Texts ELSE {<<>>}
    /\ outcome = "none"
    /\ patches = 0

\* One application of the rule: the new content is written back when the
\* patcher returns one; a failure ends the run and leaves the file alone.
ApplyPatch ==
    /\ pc = "patching"
    /\ patches < MaxPatches
    /\ outcome \in {"none", "Ok"}
    /\ LET r == Patch(Existing, rule)
       IN  /\ outcome' = r.status
           /\ IF r.status = "Ok"
              THEN content' = r.out /\ present' = TRUE
              ELSE UNCHANGED <<content, present>>
    /\ patches' = patches + 1
    /\ UNCHANGED <<rule, mvars>>

PatchNext == ApplyPatch

PatchSpec == PatchInit /\ [][PatchNext]_vars

----------------------------------------------------------------------------
(* Properties of run_apps and main *)

Terminal == pc \in {"done", "panicked", "returned"}

\* The sequence <<1, ..., n>>.
Upto(n) == [k \in 1..n |-> k]

\* Some command that exited did so with a failure.
SomeFailure == \E k \in 1..Len(exits) : exits[k] # 0

ProjectDir == Resolve(StartDir, project_path)

\* Where the first n entries of a sequence of relative paths land in the project.
Landed(paths, n) == { Resolve(ProjectDir, paths[k]) : k \in 1..n }

BinaryPaths == [k \in 1..Len(BinaryFiles) |-> BinaryPath(BinaryFiles[k])]

\* C1: the commands are started once each, in list order, each after all
\* the earlier ones exited with success; once a command has exited with a
\* failure it is the last one ever started.
C1_FailFast ==
    /\ started = Upto(Len(started))
    /\ Len(started) <= Len(cmds)
    /\ \A k \in 1..Len(exits) :
         IF exits[k] = 0 THEN k \in 1..Len(started) ELSE Len(started) = k

C1_Witness ==
    /\ pc = "panicked"
    /\ Len(cmds) = 3
    /\ Len(exits) = 2
    /\ exits[1] = 0
    /\ exits[2] = 1

\* C2: when a command has failed, run_apps has returned Err by the time the
\* process is over; it returns Ok only if every command exited with success.
C2_ReturnsErr ==
    /\ (Terminal /\ SomeFailure) => ret = "Err"
    /\ ret = "Ok" => ~SomeFailure

MkdirSucceeds ==
    /\ Len(exits') = Len(exits) + 1
    /\ exits'[Len(exits')] = 0
    /\ cmds[i].cmd = "mkdir"

\* C4, as claimed: the working directory changes exactly in the steps in
\* which a mkdir exits with success, and becomes its first argument.
C4_ChdirExactly ==
    [][IF MkdirSucceeds
       THEN Len(cmds[i].args) >= 1 /\ cwd' = Resolve(cwd, cmds[i].args[1])
       ELSE cwd' = cwd]_vars

\* C4, amended: the working directory changes only in a step in which a
\* mkdir exits with success and the change into its first argument
\* succeeds, and then it is that argument, resolved; when that mkdir has no
\* argument or the change fails, run_apps panics and the directory is as it
\* was; a failed mkdir and any other command leave it alone, and a
\* successful command that is not mkdir never panics.
C4_ChdirAfterMkdir ==
    [][IF MkdirSucceeds
       THEN IF pc' = "panicked"
            THEN /\ cwd' = cwd
                 /\ abortAt'.phase = IF cmds[i].args = <<>> THEN "index" ELSE "chdir"
            ELSE cwd' = Resolve(cwd, cmds[i].args[1])
       ELSE /\ cwd' = cwd
            /\ (Len(exits') > Len(exits) /\ exits'[Len(exits')] = 0) => pc' # "panicked"]_vars

C4_Witness ==
    /\ Len(exits) = 2
    /\ cmds[1] = Cmd("mkdir", << <<"new_directory">> >>)
    /\ cmds[2] = Cmd("mkdir", << <<"-p">>, <<"a", "b">> >>)
    /\ exits[1] = 0
    /\ exits[2] = 0
    /\ pc = "panicked"
    /\ cwd = <<"/", "home", "new_directory">>

\* What the steps completed before an abort at (phase, idx) left behind.
DirsBefore(phase, idx) ==
    { Resolve(StartDir, DirPaths(project_path)[k]) :
        k \in 1..(IF phase = "create_directory" THEN idx - 1 ELSE 3) }

ExitsBefore(phase, idx) ==
    CASE phase \in {"create_directory", "set_current_dir"} -> 0
      [] phase \in {"spawn", "exit"} -> idx - 1
      [] OTHER -> Len(apps)

FilesBefore(phase, idx) ==
    CASE phase = "write_text" -> Landed(TextFiles, idx - 1)
      [] phase = "write_binary" ->
           Landed(TextFiles, Len(TextFiles)) \cup Landed(BinaryPaths, idx - 1)
      [] phase = "write_red_box" ->
           Landed(TextFiles, Len(TextFiles)) \cup Landed(BinaryPaths, Len(BinaryPaths))
      [] OTHER -> {}

\* C5: no step removes a directory, a file or a command's success, or takes
\* the process back out of the project directory; and when the process has
\* aborted, what the steps before the failing one did is all there.
C5_NoRollback ==
    /\ [][/\ dirs \subseteq dirs'
          /\ files \subseteq files'
          /\ SubSeq(exits', 1, Len(exits)) = exits
          /\ cwd = ProjectDir => cwd' = ProjectDir]_vars
    /\ [](pc = "panicked" =>
            /\ DirsBefore(abortAt.phase, abortAt.idx) \subseteq dirs
            /\ FilesBefore(abortAt.phase, abortAt.idx) = files
            /\ Len(exits) >= ExitsBefore(abortAt.phase, abortAt.idx)
            /\ \A k \in 1..ExitsBefore(abortAt.phase, abortAt.idx) : exits[k] = 0
            /\ abortAt.phase \notin {"create_directory", "set_current_dir"}
                 => cwd = ProjectDir)

C5_Witness ==
    /\ pc = "panicked"
    /\ abortAt = [phase |-> "write_binary", idx |-> 3]
    /\ Cardinality(files) = Len(TextFiles) + 2

\* The child in flight is one that never exits.
Stuck == inflight # 0 /\ hung

\* C9: a command is started only when every command before it has exited
\* with success, so at most one is in flight; while a child that never exits
\* is in flight nothing else happens: no command is started, no file is
\* written, the process does not end; otherwise the process ends.
C9_Sequential ==
    /\ [](/\ Len(started) - Len(exits) = IF inflight # 0 THEN 1 ELSE 0
          /\ \A k \in 1..Len(started) : \A j \in 1..(k - 1) :
               j <= Len(exits) /\ exits[j] = 0
          /\ Stuck => (files = {} /\ ~Terminal))
    /\ [][Stuck => (Stuck' /\ inflight' = inflight /\ started' = started
                     /\ files' = files /\ pc' = pc)]_vars
    /\ <>(Terminal \/ Stuck)

C9_Witness ==
    /\ Stuck
    /\ inflight = 3
    /\ Len(exits) = 2

\* C10: a file is written only after the three directories were created,
\* the working directory set to the project and the five commands run with
\* success in the order git init, npm init -y, npm install --save-dev,
\* npm install react react-dom, node -e; "Done!" comes after all twenty
\* files; every command and every write runs in the project directory.
C10_PhaseOrder ==
    /\ (files # {} \/ pc \in {"write_text", "write_binary", "write_red_box", "done"}) =>
         /\ DirsBefore("done", 0) \subseteq dirs
         /\ Cardinality(DirsBefore("done", 0)) = 3
         /\ started = Upto(5)
         /\ exits = <<0, 0, 0, 0, 0>>
         /\ <<cmds[1].cmd, cmds[2].cmd, cmds[3].cmd, cmds[4].cmd, cmds[5].cmd>>
              = <<"git", "npm", "npm", "npm", "node">>
         /\ cmds[1].args[1] = <<"init">>
         /\ cmds[2].args = << <<"init">>, <<"-y">> >>
         /\ cmds[3].args[2] = <<"--save-dev">>
         /\ cmds[4].args = << <<"install">>, <<"react">>, <<"react-dom">> >>
         /\ cmds[5].args[1] = <<"-e">>
    /\ pc = "done" =>
         /\ files = FilesBefore("write_red_box", 0) \cup {Resolve(ProjectDir, RedBoxPath)}
         /\ Cardinality(files) = 20
    /\ (started # <<>> \/ files # {}) => cwd = ProjectDir
    /\ \A k \in 1..Len(cmds) : cmds[k].cmd # "mkdir"

C10_Witness == pc = "done" /\ project_path = <<"work", "site">>

----------------------------------------------------------------------------
(* Properties of the patcher *)

\* A step that applies a well-formed rule.
Patching == patches' = patches + 1 /\ ~MalformedRule(rule)

\* The number of places where t occurs in s.
Occurrences(s, t) ==
    Cardinality({ p \in 1..(Len(s) - Len(t) + 1) : SubSeq(s, p, p + Len(t) - 1) = t })

C7_Preserved ==
    [][(/\ Patching
        /\ ~Contains(Existing, Marker(rule.importStatement))
        /\ FirstMatch(Existing, rule.arrayKeyName) # NoMatch) =>
          LET c == Existing
              o == content'
              imp == rule.importStatement
              inj == rule.injectedExpression
              m == FirstMatch(c, rule.arrayKeyName)
              E == Trim(SubSeq(c, m.open + 1, m.close - 1))
              off == Len(imp) + 1
              first == off + m.open + 1
              tail == Len(c) - m.close
          IN  /\ outcome' = "Ok"
              /\ SubSeq(o, 1, off) = imp \o <<"\n">>
              /\ Occurrences(o, imp) = 1
              /\ SubSeq(o, off + 1, off + m.open) = SubSeq(c, 1, m.open)
              /\ SubSeq(o, first, first + Len(inj) - 1) = inj
              /\ SubSeq(o, Len(o) - tail, Len(o)) = SubSeq(c, m.close, Len(c))
              /\ E # <<>> =>
                   \E at \in (first + Len(inj))..(Len(o) - tail - Len(E)) :
                      SubSeq(o, at, at + Len(E) - 1) = E]_vars

C7_Witness ==
    /\ patches = 1
    /\ outcome = "Ok"
    /\ content = <<"i", "'", "m", "'", "\n", "k", ":", "[", "x", ",", "\n", "e",
                   "\n", " ", " ", "]">>

====
